---- MODULE Spec2Model ----
(***************************************************************************)
(* NASA SafeOut API: the shared Earthdata authenticator                    *)
(* (app/services/earthdata.py), the per-request aggregation of the six     *)
(* sources (app/routers/environmental.py, app/services/data_processor.py)  *)
(* and the event loop that runs the request coroutines.                    *)
(*                                                                         *)
(* Time is counted in minutes.  A request is a coroutine; between two      *)
(* await expressions it holds the event loop and no other coroutine runs.  *)
(***************************************************************************)
EXTENDS Integers, Sequences, FiniteSets, TLC

\* ------------------------------------------------------------------ bounds
\* Last minute the clock is followed to.
MaxTime == 2
\* Saturation of the per-method count of earthaccess.login calls.
MaxLoginCount == 3
\* Grouped stations handed to the station list (more than it retains).
MaxStations == 6
\* Distinct distance values among the stations.
MaxStationDistance == 2
\* Deduplicated detections handed to the fire list (more than it retains).
MaxFires == 22
\* The distances of the detections follow (a * i + b) % m.
MaxStride == 4
MaxOffset == 1
\* Coordinates of a detection, in thousandths of a degree.
MaxCoordinate == 10
\* Retained stations that carry a PM2.5 value.
MaxPm25Stations == 3
\* UV index values, in tenths.
MaxUvIndex == 130
\* Wind directions, in whole degrees.
MaxDegrees == 360

\* --------------------------------------------------------- program constants
BackoffGenericMinutes == 2
BackoffLockedMinutes == 10
MinLatitude == -90
MaxLatitude == 90
MinLongitude == -180
MaxLongitude == 180
MinRadiusMeters == 100
MaxRadiusMeters == 50000
\* The station list keeps 5 entries, the fire list 20.
StationLimit == 5
FireLimit == 20
\* _deduplicate_fires: km per degree, and the threshold in km.
KmPerDegree == 111
DistanceThresholdKm == 1

Requests == {"r1", "r2"}
NoCoroutine == "none"

\* A variant that prefers the netrc file: the order C4 rules out.
MethodOrderNetrcFirst == <<"netrc", "env", "token">>

\* Preference order of the authentication methods.
MethodOrder == <<"token", "env", "netrc">>
Methods == {"token", "env", "netrc"}
NoMethod == "none"

\* What earthaccess.login can do: return a session that is authenticated,
\* return one that is not (or None), raise, raise with an account-lock message.
LoginOutcomes == {"authenticated", "unauthenticated", "raises", "raises_locked"}

VARIABLES
    now,                \* datetime.utcnow(), in minutes
    settings,           \* the Settings instance (read once at start-up)
    netrc_exists,       \* ~/.netrc or ~/_netrc exists
    environ,            \* os.environ, the EARTHDATA_* names it holds
    auth_attempted,     \* EarthdataService._auth_attempted
    auth_successful,    \* EarthdataService._auth_successful
    shared_auth,        \* EarthdataService._shared_auth
    attempted_methods,  \* EarthdataService._attempted_methods
    backoff_until,      \* EarthdataService._backoff_until: {} is None, {t} a deadline
    loop,               \* the coroutine that holds the event loop
    req,                \* per request: the handler's locals and its DataProcessor
    loginCalls,         \* earthaccess.login calls per method since the last reset
    call                \* a function of the code called on its own: arguments, result

vars == <<now, settings, netrc_exists, environ, auth_attempted, auth_successful,
          shared_auth, attempted_methods, backoff_until, loop, req, loginCalls,
          call>>

authVars == <<auth_attempted, auth_successful, shared_auth, attempted_methods,
              backoff_until>>

\* ------------------------------------------------------------ configuration
\* A field of Settings is "undeclared" (reading it raises AttributeError),
\* "empty" (the default "") or "set".
SettingsAsDeclared(user, pass, firms) ==
    [earthdata_token |-> "undeclared", openaq_api_key |-> "undeclared",
     earthdata_username |-> user, earthdata_password |-> pass,
     firms_api_key |-> firms]

\* The configuration surface with the two fields the services read.
SettingsWithServiceFields(token, user, pass, firms) ==
    [earthdata_token |-> token, openaq_api_key |-> "empty",
     earthdata_username |-> user, earthdata_password |-> pass,
     firms_api_key |-> firms]

\* The deployments followed: the settings and whether a netrc file exists.
Deployments ==
    {<<SettingsAsDeclared("set", "set", "set"), TRUE>>,
     <<SettingsWithServiceFields("set", "set", "set", "set"), FALSE>>,
     <<SettingsWithServiceFields("set", "set", "empty", "empty"), TRUE>>,
     <<SettingsWithServiceFields("empty", "set", "set", "set"), TRUE>>,
     <<SettingsWithServiceFields("set", "empty", "empty", "set"), FALSE>>,
     <<SettingsWithServiceFields("empty", "empty", "empty", "empty"), FALSE>>}

\* ------------------------------------------------------------------ queries
\* A request body: the fields it carries and their values.
Body(fields, latitude, longitude, radius_meters) ==
    [fields |-> fields, latitude |-> latitude, longitude |-> longitude,
     radius_meters |-> radius_meters]

Queries ==
    {Body({"latitude", "longitude"}, 0, 0, 5000),
     Body({"latitude", "longitude"}, 90, 180, 100),
     Body({"latitude", "longitude"}, -90, -180, 50000),
     Body({"latitude", "longitude"}, 91, 0, 5000),
     Body({"latitude", "longitude"}, -91, 0, 5000),
     Body({"latitude", "longitude"}, 0, 181, 5000),
     Body({"latitude", "longitude"}, 0, -181, 5000),
     Body({"latitude", "longitude"}, 0, 0, 99),
     Body({"latitude", "longitude"}, 0, 0, 50001),
     Body({"latitude"}, 0, 0, 5000),
     Body({"longitude"}, 0, 0, 5000)}

\* A variant of LocationRequest without the bounds of radius_meters: what C12
\* rules out.
LocationRequestWithoutRadiusBounds(q) ==
    /\ {"latitude", "longitude"} \subseteq q.fields
    /\ q.latitude >= MinLatitude /\ q.latitude <= MaxLatitude
    /\ q.longitude >= MinLongitude /\ q.longitude <= MaxLongitude

\* LocationRequest: ge/le bounds on each field, latitude and longitude required.
LocationRequestValid(q) ==
    /\ {"latitude", "longitude"} \subseteq q.fields
    /\ q.latitude >= MinLatitude /\ q.latitude <= MaxLatitude
    /\ q.longitude >= MinLongitude /\ q.longitude <= MaxLongitude
    /\ q.radius_meters >= MinRadiusMeters /\ q.radius_meters <= MaxRadiusMeters

\* ----------------------------------------------------------------- schemas
Sources == {"air_quality", "fire_history", "precipitation", "weather",
            "uv_index", "imagery"}

\* The fields of EnvironmentalData; each defaults to None.
EnvironmentalDataFields ==
    {"precipitation", "air_quality", "weather", "uv_index", "fire_history"}

EnvironmentalData == [f \in EnvironmentalDataFields |-> "None"]

\* PrecipitationData.forecast_hours is List[HourlyForecast]: None is refused.
PrecipitationDataAccepts(forecast_hours) == forecast_hours # "None"

\* GroundAirQuality.average is Optional[Dict[str, float]]: None, or a dict
\* whose values are all floats.
GroundAirQualityAccepts(average) == average \in {"None", "floats"}

\* WindData requires speed_m_s, speed_km_h, direction_degrees, direction_cardinal.
WindDataRequired == {"speed_m_s", "speed_km_h", "direction_degrees",
                     "direction_cardinal"}
WindDataAccepts(kwargs) == WindDataRequired \subseteq kwargs

\* ---------------------------------------------------------------- requests
\* The handler's locals, its DataProcessor's services, and its answer: `valid`
\* is the verdict on the body, `logins` the login calls its archive calls have
\* made so far.
\* (EarthdataService.auth is only ever written, and is left out.)
IdleRequest ==
    [pc |-> "idle", valid |-> FALSE, status |-> 0,
     queried |-> 0, successful |-> 0, warnings |-> <<>>,
     data |-> EnvironmentalData,
     air_in |-> "-", fire_in |-> "-",
     authenticated |-> FALSE,
     login |-> NoMethod, logins |-> 0,
     openaq_open |-> FALSE, firms_open |-> FALSE]

\* Where a coroutine is suspended in an await (or is not running at all).
AwaitPoints == {"idle", "air_await", "fire_await1", "fire_await2",
                "close_await1", "close_await2", "done"}

\* A variant in which login is awaited, so that the event loop is released
\* while it is in flight: the interleaving C5 rules out.
SuspendedAlsoInLogin(rq) == rq.pc \in AwaitPoints \/ rq.login # NoMethod

Suspended(rq) == rq.pc \in AwaitPoints

CanRun(r) == loop \in {NoCoroutine, r}

\* One step of request r's coroutine, leaving it as `new`.
Step(r, new) ==
    /\ CanRun(r)
    /\ req' = [req EXCEPT ![r] = new]
    /\ loop' = IF Suspended(new) THEN NoCoroutine ELSE r

\* data_sources_queried += 1, the first statement of each source's try block.
CountQueried(rq) == [rq EXCEPT !.queried = @ + 1]

Warn(rq, source, kind) ==
    [rq EXCEPT !.warnings = Append(@, [source |-> source, kind |-> kind])]

\* A variant that counts every result, usable or not: what C7 rules out.
RouteCountingEveryResult(rq, source, result) ==
    IF result # "None"
    THEN [rq EXCEPT !.data[source] = result, !.successful = @ + 1]
    ELSE [Warn(rq, source, "unavailable") EXCEPT !.successful = @ + 1]

\* The router's handling of one source's result: a truthy result is stored
\* and counted, a falsy one adds the "unavailable" warning.
Route(rq, source, result) ==
    IF result # "None"
    THEN [rq EXCEPT !.data[source] = result, !.successful = @ + 1]
    ELSE Warn(rq, source, "unavailable")

\* ------------------------------------------------------- the adapters' results
\* What the OpenAQ /locations call gives get_latest_measurements.
AirOutcomes == {"no_stations", "stations_without_values", "stations_with_values"}

\* The `average` argument built from the retained stations: a dict of float
\* means, to which the string overall_aqi is added whenever it is not empty.
AverageArg(o) ==
    IF o = "stations_with_values" THEN "floats_and_overall_aqi" ELSE "None"

\* DataProcessor.get_air_quality_data: no measurements (an HTTP error gives
\* none either) leaves ground_stations None; a schema refusal is caught and
\* gives None.
GetAirQualityData(o) ==
    IF o = "no_stations"
    THEN "record_no_ground"
    ELSE IF GroundAirQualityAccepts(AverageArg(o))
         THEN "record_ground"
         ELSE "None"

\* What one FIRMS area call gives get_active_fires (when a key is configured).
FirmsOutcomes == {"http_error", "empty_csv", "rows"}

\* DataProcessor.get_fire_history_data: an empty list gives the record with
\* active_fires_count 0, never None.
GetFireHistoryData(fire_in) ==
    IF fire_in = "rows" THEN "record_fires" ELSE "record_empty"

\* What the archive gives once authenticated: the search, then the download
\* and the extraction from the latest file.
ImergOutcomes == {"download_failed", "no_value", "value"}
Merra2Outcomes == {"download_failed", "no_temperature", "temperature_only",
                   "temperature_and_wind"}
ProviderInputs == [granules : BOOLEAN, imerg : ImergOutcomes, merra2 : Merra2Outcomes]

\* DataProcessor.get_precipitation_data: passes forecast_hours=None.
GetPrecipitationData(imerg_data) ==
    IF imerg_data = "None" THEN "None"
    ELSE IF PrecipitationDataAccepts("None") THEN "record" ELSE "None"

\* The keyword arguments get_weather_data gives WindData.
WindKwargs == {"speed_ms", "speed_kmh", "direction_degrees", "direction_cardinal"}

\* DataProcessor.get_weather_data: builds WindData when a wind speed came back.
GetWeatherData(merra2_data) ==
    IF merra2_data = "None" THEN "None"
    ELSE IF merra2_data = "dict_with_wind" /\ ~WindDataAccepts(WindKwargs) THEN "None"
    ELSE "record"

\* EarthdataService.get_imerg_data / get_merra2_data after the download.
ImergData(o) == IF o = "value" THEN "dict" ELSE "None"
Merra2Data(o) ==
    IF o = "temperature_and_wind" THEN "dict_with_wind"
    ELSE IF o = "temperature_only" THEN "dict" ELSE "None"

\* EarthdataService.get_tropomi_data and get_uv_index_data return None
\* whatever the authentication state (the data is not in the archive), so
\* DataProcessor.get_uv_index_data returns None and the satellite part of an
\* air-quality record is the placeholder.
GetTropomiData(authenticated) == "None"

SatelliteAirQuality(tropomi_data) ==
    IF tropomi_data # "None"
    THEN [aerosol_index |-> "value", no2_mol_m2 |-> "value",
          quality_flag |-> "from_data"]
    ELSE [aerosol_index |-> "None", no2_mol_m2 |-> "None",
          quality_flag |-> "unavailable"]

\* A variant that has UV data once logged in: what C20 rules out.
GetUvIndexDataWhenAuthenticated(authenticated) ==
    IF authenticated THEN "record" ELSE "None"

GetUvIndexData(authenticated) == "None"

\* GIBSService.get_environmental_data always returns its (non-empty) dict.
GetGibsImagery == "dict"

\* --------------------------------------------- the handler between two awaits
\* UV index (always None), imagery, then the await of processor.close().
\* The imagery branch: hasattr(env_data, 'satellite_imagery') is false for a
\* name that is no field, and assigning such a name raises, which the
\* source's except turns into an "error" warning.
RouteImagery(rq, result) ==
    IF result = "None" THEN Warn(rq, "imagery", "unavailable")
    ELSE IF "satellite_imagery" \notin EnvironmentalDataFields
         THEN Warn(rq, "imagery", "error")
         ELSE [rq EXCEPT !.successful = @ + 1]

RunTail(rq) ==
    LET uv == Route(CountQueried(rq), "uv_index", GetUvIndexData(rq.authenticated))
        im == RouteImagery(CountQueried(uv), GetGibsImagery)
    IN  [im EXCEPT !.pc = "close_await1", !.logins = 0]

\* A variant that counts the weather source only when the archive is reached:
\* what C8 rules out.
RunWeatherCountedOnArchiveCall(rq) ==
    IF rq.authenticated
    THEN [CountQueried(rq) EXCEPT !.pc = "merra2_search"]
    ELSE RunTail(Route(rq, "weather", "None"))

\* A variant in which the weather adapter goes on to its archive calls (and
\* their ensure_authenticated) whatever the flag: what C25 rules out.
RunWeatherEnsuring(rq) == [CountQueried(rq) EXCEPT !.pc = "merra2_search"]

\* Weather: get_merra2_data reads the instance's own flag.
RunWeather(rq) ==
    LET q == CountQueried(rq)
    IN  IF q.authenticated
        THEN [q EXCEPT !.pc = "merra2_search"]
        ELSE RunTail(Route(q, "weather", "None"))

\* Precipitation: get_imerg_data starts with ensure_authenticated.
RunPrecipitation(rq) == [CountQueried(rq) EXCEPT !.pc = "imerg"]

\* Fire history: without a key both get_active_fires calls return [] without
\* awaiting.
RunFireHistory(rq) ==
    LET q == CountQueried(rq)
    IN  IF settings.firms_api_key = "empty"
        THEN RunPrecipitation(Route([q EXCEPT !.fire_in = "no_key"], "fire_history",
                                    GetFireHistoryData("no_key")))
        ELSE [q EXCEPT !.pc = "fire_await1"]

\* ------------------------------------------------------ EarthdataService auth
\* The places that call ensure_authenticated: get_imerg_data, then search_data
\* and download_granules under get_imerg_data and under get_merra2_data.
Sites == {"imerg", "imerg_search", "imerg_download", "merra2_search",
          "merra2_download"}

TokenAvailable == settings.earthdata_token = "set"
EnvAvailable ==
    /\ "EARTHDATA_USERNAME" \in environ \/ settings.earthdata_username = "set"
    /\ "EARTHDATA_PASSWORD" \in environ \/ settings.earthdata_password = "set"
NetrcAvailable == netrc_exists

Available(m) ==
    IF m = "token" THEN TokenAvailable
    ELSE IF m = "env" THEN EnvAvailable
    ELSE NetrcAvailable

\* A variant that forgets which methods were attempted: what C29 rules out.
FirstAvailable(order) ==
    LET cand == {i \in 1..Len(order) : Available(order[i])}
    IN  IF cand = {} THEN NoMethod
        ELSE order[CHOOSE i \in cand : \A k \in cand : i <= k]

\* The first method of the order that is available and not yet attempted.
FirstUntried(order) ==
    LET cand == {i \in 1..Len(order) :
                    Available(order[i]) /\ order[i] \notin attempted_methods}
    IN  IF cand = {} THEN NoMethod
        ELSE order[CHOOSE i \in cand : \A k \in cand : i <= k]

ChooseNextAuthMethod ==
    IF auth_successful THEN NoMethod ELSE FirstUntried(MethodOrder)

\* os.environ as _authenticate_once leaves it before calling login.
EnvironFor(m) ==
    IF m = "token"
    THEN (environ \cup {"EARTHDATA_TOKEN"}) \ {"EARTHDATA_USERNAME", "EARTHDATA_PASSWORD"}
    ELSE IF m = "env"
    THEN (environ
          \cup (IF settings.earthdata_username = "set" THEN {"EARTHDATA_USERNAME"} ELSE {})
          \cup (IF settings.earthdata_password = "set" THEN {"EARTHDATA_PASSWORD"} ELSE {}))
         \ {"EARTHDATA_TOKEN"}
    ELSE environ

\* A variant without the backoff test: what C2 rules out.
InBackoffNever == FALSE

InBackoff == \E t \in backoff_until : now < t

\* ensure_authenticated leaves its result in self.authenticated and returns
\* it; what its caller does with it.
AfterEnsure(rq, ok, inp) ==
    LET q == [rq EXCEPT !.authenticated = ok, !.login = NoMethod]
    IN  IF q.pc = "imerg"
        THEN IF ok THEN [q EXCEPT !.pc = "imerg_search"]
             ELSE RunWeather(Route(q, "precipitation", GetPrecipitationData("None")))
        ELSE IF q.pc = "imerg_search"
        THEN IF ok /\ inp.granules THEN [q EXCEPT !.pc = "imerg_download"]
             ELSE RunWeather(Route(q, "precipitation", GetPrecipitationData("None")))
        ELSE IF q.pc = "imerg_download"
        THEN RunWeather(Route(q, "precipitation",
                 GetPrecipitationData(IF ok THEN ImergData(inp.imerg) ELSE "None")))
        ELSE IF q.pc = "merra2_search"
        THEN IF ok /\ inp.granules THEN [q EXCEPT !.pc = "merra2_download"]
             ELSE RunTail(Route(q, "weather", GetWeatherData("None")))
        ELSE RunTail(Route(q, "weather",
                 GetWeatherData(IF ok THEN Merra2Data(inp.merra2) ELSE "None")))

\* A variant that sets a deadline only when login raises: what C21 rules out.
BackoffAfterRaiseOnly(outcome) ==
    IF outcome = "raises_locked" THEN {now + BackoffLockedMinutes}
    ELSE IF outcome = "raises" THEN {now + BackoffGenericMinutes}
    ELSE backoff_until

\* The effect of _authenticate_once once login has returned or raised.
BackoffAfter(outcome) ==
    IF outcome = "authenticated" THEN backoff_until
    ELSE IF outcome = "raises_locked" THEN {now + BackoffLockedMinutes}
    ELSE {now + BackoffGenericMinutes}

\* A variant whose except path forgets the method: what C1 rules out.
RecordAttemptUnlessRaised(m, outcome) ==
    IF outcome \in {"raises", "raises_locked"}
    THEN attempted_methods
    ELSE attempted_methods \cup {m}

\* Both the normal path and the except path add the method.
RecordAttempt(m, outcome) == attempted_methods \cup {m}

\* A variant without the early return: what C3 rules out.
AlreadyAuthenticatedUnchecked == FALSE

\* The first test of ensure_authenticated.
AlreadyAuthenticated == auth_successful

\* The class-level values at import, and those reset_authentication assigns:
\* _auth_attempted, _auth_successful, _shared_auth, _attempted_methods,
\* _backoff_until.
InitialAuthState == <<FALSE, FALSE, "None", {}, {}>>
\* A variant of reset that keeps the backoff deadline: what C6 rules out.
ResetStateKeepingBackoff == <<FALSE, FALSE, "None", {}, backoff_until>>
ResetState == <<FALSE, FALSE, "None", {}, {}>>

\* The process after start-up: the class attributes of EarthdataService at
\* their declared values, no request in flight.
ProcessStart ==
    /\ now = 0
    /\ \E d \in Deployments : settings = d[1] /\ netrc_exists = d[2]
    /\ environ = {}
    /\ auth_attempted = InitialAuthState[1]
    /\ auth_successful = InitialAuthState[2]
    /\ shared_auth = InitialAuthState[3]
    /\ attempted_methods = InitialAuthState[4]
    /\ backoff_until = InitialAuthState[5]
    /\ loop = NoCoroutine
    /\ req = [r \in Requests |-> IdleRequest]
    /\ loginCalls = [m \in Methods |-> 0]

\* The served application: functions are reached through the endpoint only.
NoCall == [fn |-> "none"]

Init ==
    /\ ProcessStart
    /\ call = NoCall

\* ------------------------------------------------------------------ actions
\* FastAPI validates the body against LocationRequest; the handler then builds
\* its DataProcessor (OpenAQService() reads settings.openaq_api_key,
\* EarthdataService() copies the shared flag) and awaits the air-quality call.
\* An exception outside the per-source try blocks becomes HTTP 500.
ReceiveBody(r, q) ==
    /\ req[r].pc = "idle"
    /\ Step(r, IF ~LocationRequestValid(q)
               THEN [IdleRequest EXCEPT !.pc = "done", !.status = 422]
               ELSE IF settings.openaq_api_key = "undeclared"
               THEN [IdleRequest EXCEPT !.pc = "done", !.valid = TRUE,
                                        !.status = 500]
               ELSE CountQueried([IdleRequest EXCEPT
                                     !.pc = "air_await",
                                     !.valid = TRUE,
                                     !.authenticated = auth_successful,
                                     !.openaq_open = TRUE,
                                     !.firms_open = TRUE]))
    /\ UNCHANGED <<now, settings, netrc_exists, environ, authVars, loginCalls>>

Receive(r) ==
    /\ \E q \in Queries : ReceiveBody(r, q)
    /\ UNCHANGED call

AirQualityReturns(r) ==
    /\ req[r].pc = "air_await"
    /\ \E o \in AirOutcomes :
         Step(r, RunFireHistory(Route([req[r] EXCEPT !.air_in = o], "air_quality",
                                      GetAirQualityData(o))))
    /\ UNCHANGED <<now, settings, netrc_exists, environ, authVars, loginCalls, call>>

\* The VIIRS_SNPP_NRT call returns.
FirmsFirstReturns(r) ==
    /\ req[r].pc = "fire_await1"
    /\ \E o \in FirmsOutcomes :
         Step(r, [req[r] EXCEPT !.fire_in = IF o = "rows" THEN "rows" ELSE "no_data",
                                !.pc = "fire_await2"])
    /\ UNCHANGED <<now, settings, netrc_exists, environ, authVars, loginCalls, call>>

\* The MODIS_NRT call returns; the merged list is deduplicated and converted.
FirmsSecondReturns(r) ==
    /\ req[r].pc = "fire_await2"
    /\ \E o \in FirmsOutcomes :
         LET merged == IF o = "rows" THEN "rows" ELSE req[r].fire_in
         IN  Step(r, RunPrecipitation(Route([req[r] EXCEPT !.fire_in = merged],
                                            "fire_history", GetFireHistoryData(merged))))
    /\ UNCHANGED <<now, settings, netrc_exists, environ, authVars, loginCalls, call>>

\* ensure_authenticated up to the call of earthaccess.login (which blocks the
\* event loop), or to its return when no login is made.
EnsureAuthenticated(r) ==
    /\ req[r].pc \in Sites
    /\ req[r].login = NoMethod
    /\ IF AlreadyAuthenticated
       THEN /\ \E inp \in ProviderInputs : Step(r, AfterEnsure(req[r], TRUE, inp))
            /\ UNCHANGED <<environ, authVars, loginCalls>>
       ELSE IF InBackoff \/ ChooseNextAuthMethod = NoMethod
       THEN /\ \E inp \in ProviderInputs : Step(r, AfterEnsure(req[r], FALSE, inp))
            /\ UNCHANGED <<environ, authVars, loginCalls>>
       ELSE LET m == ChooseNextAuthMethod
            IN  /\ Step(r, [req[r] EXCEPT !.login = m, !.logins = @ + 1])
                /\ auth_attempted' = TRUE
                /\ environ' = EnvironFor(m)
                /\ loginCalls' = [loginCalls EXCEPT
                                     ![m] = IF @ < MaxLoginCount THEN @ + 1 ELSE @]
                /\ UNCHANGED <<auth_successful, shared_auth, attempted_methods,
                               backoff_until>>
    /\ UNCHANGED <<now, settings, netrc_exists, call>>

\* earthaccess.login returns a session (authenticated or not) or raises.
LoginReturns(r) ==
    /\ req[r].pc \in Sites
    /\ req[r].login # NoMethod
    /\ \E outcome \in LoginOutcomes, inp \in ProviderInputs :
         LET success == outcome = "authenticated"
         IN  /\ attempted_methods' = RecordAttempt(req[r].login, outcome)
             /\ auth_successful' = success
             /\ shared_auth' = IF success THEN "session" ELSE "None"
             /\ backoff_until' = BackoffAfter(outcome)
             /\ Step(r, AfterEnsure(req[r], success, inp))
    /\ UNCHANGED <<now, settings, netrc_exists, environ, auth_attempted, loginCalls,
                 call>>

\* EarthdataService.reset_authentication (a classmethod, run on the event loop).
ResetAuthentication ==
    /\ loop = NoCoroutine
    /\ auth_attempted' = ResetState[1]
    /\ auth_successful' = ResetState[2]
    /\ shared_auth' = ResetState[3]
    /\ attempted_methods' = ResetState[4]
    /\ backoff_until' = ResetState[5]
    /\ loginCalls' = [m \in Methods |-> 0]
    /\ UNCHANGED <<now, settings, netrc_exists, environ, loop, req, call>>

\* DataProcessor.close: openaq_service.close() returns or raises; a raise skips
\* the FIRMS close and is logged.
CloseOpenAQReturns(r) ==
    /\ req[r].pc = "close_await1"
    /\ \E raises \in BOOLEAN :
         Step(r, IF raises THEN [req[r] EXCEPT !.pc = "respond"]
                 ELSE [req[r] EXCEPT !.openaq_open = FALSE, !.pc = "close_await2"])
    /\ UNCHANGED <<now, settings, netrc_exists, environ, authVars, loginCalls, call>>

CloseFirmsReturns(r) ==
    /\ req[r].pc = "close_await2"
    /\ \E raises \in BOOLEAN :
         Step(r, IF raises THEN [req[r] EXCEPT !.pc = "respond"]
                 ELSE [req[r] EXCEPT !.firms_open = FALSE, !.pc = "respond"])
    /\ UNCHANGED <<now, settings, netrc_exists, environ, authVars, loginCalls, call>>

\* The response built from the handler's locals.
Response(rq) ==
    [data |-> rq.data,
     metadata |-> [data_sources_queried |-> rq.queried,
                   data_sources_successful |-> rq.successful,
                   warnings |-> rq.warnings]]

\* The handler returns its response (HTTP 200); its locals are gone.
Respond(r) ==
    /\ req[r].pc = "respond"
    /\ Step(r, [IdleRequest EXCEPT !.pc = "done", !.valid = TRUE, !.status = 200])
    /\ UNCHANGED <<now, settings, netrc_exists, environ, authVars, loginCalls, call>>

\* The answer has been sent; the slot serves the next request.
Finish(r) ==
    /\ req[r].pc = "done"
    /\ Step(r, IdleRequest)
    /\ UNCHANGED <<now, settings, netrc_exists, environ, authVars, loginCalls, call>>

Tick ==
    /\ now < MaxTime
    /\ now' = now + 1
    /\ UNCHANGED <<settings, netrc_exists, environ, authVars, loop, req, loginCalls,
                 call>>

Next ==
    \/ \E r \in Requests : Receive(r)
    \/ \E r \in Requests : AirQualityReturns(r)
    \/ \E r \in Requests : FirmsFirstReturns(r)
    \/ \E r \in Requests : FirmsSecondReturns(r)
    \/ \E r \in Requests : EnsureAuthenticated(r)
    \/ \E r \in Requests : LoginReturns(r)
    \/ \E r \in Requests : CloseOpenAQReturns(r)
    \/ \E r \in Requests : CloseFirmsReturns(r)
    \/ \E r \in Requests : Respond(r)
    \/ \E r \in Requests : Finish(r)
    \/ ResetAuthentication
    \/ Tick

Spec == Init /\ [][Next]_vars

\* ------------------------------------------- the adapters called on their own
\* test_complete_api.py builds a DataProcessor and calls one adapter on it,
\* outside the endpoint. The record in `call` holds what the archive answers
\* in this comparison (a login outcome, the granules and their content), the
\* processor and, per situation (precipitation adapter called before or not),
\* the last result of get_weather_data, and the last result of
\* get_precipitation_data.
AdapterCalls ==
    {[fn |-> "adapters", login |-> o, inp |-> i, processor |-> "none",
      authenticated |-> FALSE, precipitation_called |-> FALSE,
      precipitation |-> "-", weather |-> [b \in BOOLEAN |-> "-"]] :
        o \in LoginOutcomes, i \in ProviderInputs}

InitAdapters ==
    /\ ProcessStart
    /\ call \in AdapterCalls

\* DataProcessor(): OpenAQService() reads settings.openaq_api_key, and
\* EarthdataService() copies the class-level success flag.
NewDataProcessor ==
    /\ call.processor = "none"
    /\ call' = IF settings.openaq_api_key = "undeclared"
               THEN [call EXCEPT !.processor = "raises"]
               ELSE [call EXCEPT !.processor = "built",
                                 !.authenticated = auth_successful]
    /\ UNCHANGED <<now, settings, netrc_exists, environ, authVars, loop, req,
                   loginCalls>>

\* ensure_authenticated run to its return, earthaccess.login answering
\* `outcome`: the method it logs in with (if any) and what it returns.
EnsureAuthenticatedWith(outcome) ==
    IF AlreadyAuthenticated THEN [method |-> NoMethod, ok |-> TRUE]
    ELSE IF InBackoff \/ ChooseNextAuthMethod = NoMethod
    THEN [method |-> NoMethod, ok |-> FALSE]
    ELSE [method |-> ChooseNextAuthMethod, ok |-> outcome = "authenticated"]

\* processor.get_precipitation_data: get_imerg_data calls ensure_authenticated
\* (search_data and download_granules call it again and find the success
\* flag set), then searches, downloads and extracts.
CallGetPrecipitationData ==
    /\ call.fn = "adapters"
    /\ call.processor = "built"
    /\ loop = NoCoroutine
    /\ LET e == EnsureAuthenticatedWith(call.login)
           imerg == IF e.ok /\ call.inp.granules
                    THEN ImergData(call.inp.imerg) ELSE "None"
       IN  /\ call' = [call EXCEPT !.authenticated = e.ok,
                                   !.precipitation_called = TRUE,
                                   !.precipitation = GetPrecipitationData(imerg)]
           /\ IF e.method = NoMethod
              THEN UNCHANGED <<environ, authVars, loginCalls>>
              ELSE /\ auth_attempted' = TRUE
                   /\ environ' = EnvironFor(e.method)
                   /\ loginCalls' = [loginCalls EXCEPT ![e.method] =
                                        IF @ < MaxLoginCount THEN @ + 1 ELSE @]
                   /\ attempted_methods' = RecordAttempt(e.method, call.login)
                   /\ auth_successful' = e.ok
                   /\ shared_auth' = IF e.ok THEN "session" ELSE "None"
                   /\ backoff_until' = BackoffAfter(call.login)
    /\ UNCHANGED <<now, settings, netrc_exists, loop, req>>

\* processor.get_weather_data: get_merra2_data tests the flag of the instance;
\* past the test, search_data and download_granules call ensure_authenticated.
CallGetWeatherData ==
    /\ call.fn = "adapters"
    /\ call.processor = "built"
    /\ loop = NoCoroutine
    /\ LET entered == call.authenticated
           ok == entered /\ AlreadyAuthenticated
           merra2 == IF ok /\ call.inp.granules
                     THEN Merra2Data(call.inp.merra2) ELSE "None"
       IN  call' = [call EXCEPT
                      !.authenticated = IF entered THEN ok ELSE @,
                      !.weather[call.precipitation_called] = GetWeatherData(merra2)]
    /\ UNCHANGED <<now, settings, netrc_exists, environ, authVars, loop, req,
                   loginCalls>>

NextAdapters ==
    \/ NewDataProcessor
    \/ CallGetPrecipitationData
    \/ CallGetWeatherData
    \/ Tick

SpecAdapters == InitAdapters /\ [][NextAdapters]_vars

\* ------------------------------------------- one client, its bodies on record
\* The endpoint serving one client at a time; `call` keeps the body of the
\* last POST /api/v1/environmental-data.
OneClient == {"r1"}

PostEnvironmentalData(r) ==
    /\ \E q \in Queries :
         /\ ReceiveBody(r, q)
         /\ call' = [fn |-> "post", body |-> q]

NextPost ==
    \/ \E r \in OneClient : PostEnvironmentalData(r)
    \/ \E r \in OneClient : AirQualityReturns(r)
    \/ \E r \in OneClient : FirmsFirstReturns(r)
    \/ \E r \in OneClient : FirmsSecondReturns(r)
    \/ \E r \in OneClient : EnsureAuthenticated(r)
    \/ \E r \in OneClient : LoginReturns(r)
    \/ \E r \in OneClient : CloseOpenAQReturns(r)
    \/ \E r \in OneClient : CloseFirmsReturns(r)
    \/ \E r \in OneClient : Respond(r)
    \/ \E r \in OneClient : Finish(r)
    \/ ResetAuthentication
    \/ Tick

SpecPost == Init /\ [][NextPost]_vars

\* What the event loop and the HTTP clients guarantee: a coroutine that can
\* run is run, and an await on an httpx call (AsyncClient(timeout=30.0) in
\* OpenAQService and FIRMSService) or on aclose() ends. earthaccess.login is
\* called without a timeout, so nothing makes LoginReturns happen.
HandlerProgress ==
    \A r \in OneClient :
        /\ WF_vars(AirQualityReturns(r))
        /\ WF_vars(FirmsFirstReturns(r))
        /\ WF_vars(FirmsSecondReturns(r))
        /\ WF_vars(EnsureAuthenticated(r))
        /\ WF_vars(CloseOpenAQReturns(r))
        /\ WF_vars(CloseFirmsReturns(r))
        /\ WF_vars(Respond(r))

SpecLive == Init /\ [][NextPost]_vars /\ HandlerProgress

\* ------------------------------------------------- functions called on their own
\* Everything but `call`.
serverVars == <<now, settings, netrc_exists, environ, auth_attempted,
                auth_successful, shared_auth, attempted_methods, backoff_until,
                loop, req, loginCalls>>

\* A call of function fn with argument arg, before it has returned.
Call(fn, arg) == [fn |-> fn, arg |-> arg, returned |-> FALSE, result |-> <<>>]

\* The call returns.
Return(result) ==
    /\ ~call.returned
    /\ call' = [call EXCEPT !.returned = TRUE, !.result = result]
    /\ UNCHANGED serverVars

\* list[:n]
Take(list, n) == SubSeq(list, 1, IF Len(list) < n THEN Len(list) ELSE n)

\* sorted(list, key=distance_km) and list.sort(key=distance_km): stable.
RECURSIVE InsertByDistance(_, _)
InsertByDistance(sorted, x) ==
    IF sorted = <<>> THEN <<x>>
    ELSE IF Head(sorted).distance_km <= x.distance_km
    THEN <<Head(sorted)>> \o InsertByDistance(Tail(sorted), x)
    ELSE <<x>> \o sorted

RECURSIVE SortByDistance(_)
SortByDistance(list) ==
    IF list = <<>> THEN <<>>
    ELSE InsertByDistance(SortByDistance(SubSeq(list, 1, Len(list) - 1)),
                          list[Len(list)])

\* The grouped stations, in the order of stations_dict, each with its
\* distance_km (in hundredths of a km); the deduplicated detections likewise.
WithDistances(distances) ==
    [i \in 1..Len(distances) |-> [id |-> i, distance_km |-> distances[i]]]

StationInputs ==
    UNION {{WithDistances(d) : d \in [1..n -> 0..MaxStationDistance]} :
              n \in 0..MaxStations}

FireInputs ==
    {WithDistances([i \in 1..n |-> (a * i + b) % m]) :
        n \in 0..MaxFires, a \in 0..MaxStride, b \in 0..MaxOffset, m \in {1, 2, 3, 5, 7}}

\* A variant that cuts the list before sorting it: what C13 rules out.
FiresCutBeforeSort(fire_events) == SortByDistance(Take(fire_events, FireLimit))

\* get_air_quality_data: sorted(stations_dict.values(), key=distance_km)[:5].
StationsList(stations) == Take(SortByDistance(stations), StationLimit)

\* get_fire_history_data: fire_events.sort(key=distance_km); fire_events[:20].
FiresList(fire_events) == Take(SortByDistance(fire_events), FireLimit)

\* A detection as _parse_csv_response leaves it: latitude and longitude (in
\* thousandths of a degree), brightness in kelvin (0.0 when the column is
\* absent).
Brightnesses == {0, 300, 330}

Detection(latitude, longitude, brightness) ==
    [latitude |-> latitude, longitude |-> longitude, brightness |-> brightness]

\* ((lat_diff ** 2 + lon_diff ** 2) ** 0.5) * 111 < distance_threshold_km,
\* both sides squared and scaled to thousandths of a degree.
IsDuplicate(fire, unique_fire) ==
    LET lat_diff == fire.latitude - unique_fire.latitude
        lon_diff == fire.longitude - unique_fire.longitude
    IN  (lat_diff * lat_diff + lon_diff * lon_diff) * KmPerDegree * KmPerDegree
        < DistanceThresholdKm * 1000 * DistanceThresholdKm * 1000

\* list.remove(x): without the first element equal to x.
RECURSIVE Remove(_, _)
Remove(list, x) ==
    IF list = <<>> THEN <<>>
    ELSE IF Head(list) = x THEN Tail(list)
    ELSE <<Head(list)>> \o Remove(Tail(list), x)

\* A variant of the inner loop that never replaces the detection it kept:
\* what C14 rules out.
KeepFirstSeen(unique_fires, fire) ==
    IF \E k \in 1..Len(unique_fires) : IsDuplicate(fire, unique_fires[k])
    THEN unique_fires
    ELSE Append(unique_fires, fire)

\* The inner loop of _deduplicate_fires for one detection: the first kept
\* detection it duplicates ends the loop, and is replaced when the new one is
\* brighter.
KeepBrighter(unique_fires, fire) ==
    LET near == {k \in 1..Len(unique_fires) : IsDuplicate(fire, unique_fires[k])}
    IN  IF near = {} THEN Append(unique_fires, fire)
        ELSE LET unique_fire == unique_fires[CHOOSE k \in near : \A n \in near : k <= n]
             IN  IF fire.brightness > unique_fire.brightness
                 THEN Append(Remove(unique_fires, unique_fire), fire)
                 ELSE unique_fires

RECURSIVE DeduplicateFires(_)
DeduplicateFires(fires) ==
    IF fires = <<>> THEN <<>>
    ELSE KeepBrighter(DeduplicateFires(SubSeq(fires, 1, Len(fires) - 1)),
                      fires[Len(fires)])

\* Two detections, the first at a corner of the grid, in both orders; and
\* three detections, the first two at opposite corners of the grid.
DeduplicateInputs ==
    LET pairs == {<<Detection(c, c, b1), Detection(lat, lon, b2)>> :
                     c \in {0, MaxCoordinate}, lat \in 0..MaxCoordinate,
                     lon \in 0..MaxCoordinate,
                     b1 \in Brightnesses, b2 \in Brightnesses}
        triples == {<<Detection(0, 0, b1),
                      Detection(MaxCoordinate, MaxCoordinate, b2),
                      Detection(lat, lon, b3)>> :
                       lat \in 0..MaxCoordinate, lon \in 0..MaxCoordinate,
                       b1 \in Brightnesses, b2 \in Brightnesses,
                       b3 \in Brightnesses}
    IN  pairs \cup {<<p[2], p[1]>> : p \in pairs} \cup triples

Deduplicate ==
    /\ call.fn = "_deduplicate_fires"
    /\ Return(DeduplicateFires(call.arg))

\* PM2.5 values of the retained stations, in ug/m3.
Pm25Inputs ==
    UNION {[1..n -> {5, 10, 12, 13, 35, 36, 40}] : n \in 1..MaxPm25Stations}

RECURSIVE Sum(_)
Sum(values) == IF values = <<>> THEN 0 ELSE Head(values) + Sum(Tail(values))

\* round(sum(all_pm25) / len(all_pm25), 2), in hundredths (half to even).
MeanRounded(values) ==
    LET n == Len(values)
        q == (100 * Sum(values)) \div n
        r == (100 * Sum(values)) % n
    IN  IF 2 * r > n \/ (2 * r = n /\ q % 2 = 1) THEN q + 1 ELSE q

\* overall_aqi from average["pm25"] (in hundredths): > 35.4, > 12.
OverallAqi(pm25) ==
    IF pm25 > 3540 THEN "unhealthy_sensitive"
    ELSE IF pm25 > 1200 THEN "moderate" ELSE "good"

\* get_air_quality_data for stations with PM2.5 values: the average dict and
\* what becomes of the record built with it.
AirQualityWithPm25(values) ==
    [returns |-> GetAirQualityData("stations_with_values"),
     average |-> [pm25 |-> MeanRounded(values),
                  overall_aqi |-> OverallAqi(MeanRounded(values))]]

AverageStations ==
    /\ call.fn = "get_air_quality_data"
    /\ Return(AirQualityWithPm25(call.arg))

\* calculate_aqi, values in tenths of a ug/m3.
Pm25Aqi(value) ==
    IF value <= 120 THEN "good"
    ELSE IF value <= 354 THEN "moderate"
    ELSE IF value <= 554 THEN "unhealthy_sensitive"
    ELSE IF value <= 1504 THEN "unhealthy"
    ELSE IF value <= 2504 THEN "very_unhealthy"
    ELSE "hazardous"

Pm10Aqi(value) ==
    IF value <= 540 THEN "good"
    ELSE IF value <= 1540 THEN "moderate"
    ELSE IF value <= 2540 THEN "unhealthy_sensitive"
    ELSE IF value <= 3540 THEN "unhealthy"
    ELSE IF value <= 4240 THEN "very_unhealthy"
    ELSE "hazardous"

No2Aqi(value) ==
    IF value <= 530 THEN "good"
    ELSE IF value <= 1000 THEN "moderate"
    ELSE IF value <= 3600 THEN "unhealthy_sensitive"
    ELSE IF value <= 6490 THEN "unhealthy"
    ELSE IF value <= 12490 THEN "very_unhealthy"
    ELSE "hazardous"

\* A variant whose bounds belong to the upper category: what C16 rules out.
O3AqiBoundsExclusive(value) ==
    IF value < 540 THEN "good"
    ELSE IF value < 700 THEN "moderate"
    ELSE IF value < 850 THEN "unhealthy_sensitive"
    ELSE IF value < 1050 THEN "unhealthy"
    ELSE IF value < 2000 THEN "very_unhealthy"
    ELSE "hazardous"

O3Aqi(value) ==
    IF value <= 540 THEN "good"
    ELSE IF value <= 700 THEN "moderate"
    ELSE IF value <= 850 THEN "unhealthy_sensitive"
    ELSE IF value <= 1050 THEN "unhealthy"
    ELSE IF value <= 2000 THEN "very_unhealthy"
    ELSE "hazardous"

CalculateAqi(parameter, value) ==
    IF parameter = "pm25" THEN Pm25Aqi(value)
    ELSE IF parameter = "pm10" THEN Pm10Aqi(value)
    ELSE IF parameter = "no2" THEN No2Aqi(value)
    ELSE IF parameter = "o3" THEN O3Aqi(value)
    ELSE "unknown"

\* Parameters OpenAQ reports, and values at, just below and just above every
\* bound of the tables (in tenths).
AqiInputs ==
    [parameter : {"pm25", "pm10", "no2", "o3", "so2", "co"},
     value : {0} \cup
             {b + d : b \in {120, 354, 554, 1504, 2504, 540, 1540, 2540, 3540,
                             4240, 530, 1000, 3600, 6490, 12490, 700, 850,
                             1050, 2000},
                      d \in {-1, 0, 1}}]

Categorize ==
    /\ call.fn = "calculate_aqi"
    /\ Return(CalculateAqi(call.arg.parameter, call.arg.value))

\* A variant whose bounds belong to the lower category: what C17 rules out.
CategorizeUvIndexBoundsInclusive(uv_value) ==
    IF uv_value <= 30
    THEN <<"low", "Baixo risco. Protecao minima necessaria.">>
    ELSE IF uv_value <= 60
    THEN <<"moderate", "Risco moderado. Use protetor solar.">>
    ELSE IF uv_value <= 80
    THEN <<"high", "Alto risco. Protecao necessaria. Use protetor solar e evite exposicao prolongada.">>
    ELSE IF uv_value <= 110
    THEN <<"very_high", "Risco muito alto. Protecao extra necessaria. Evite exposicao ao sol do meio-dia.">>
    ELSE <<"extreme", "Risco extremo. Evite exposicao ao sol. Tome todas as precaucoes.">>

\* categorize_uv_index, the value in tenths; the advisory strings are the
\* source's, written without their accents.
CategorizeUvIndex(uv_value) ==
    IF uv_value < 30
    THEN <<"low", "Baixo risco. Protecao minima necessaria.">>
    ELSE IF uv_value < 60
    THEN <<"moderate", "Risco moderado. Use protetor solar.">>
    ELSE IF uv_value < 80
    THEN <<"high", "Alto risco. Protecao necessaria. Use protetor solar e evite exposicao prolongada.">>
    ELSE IF uv_value < 110
    THEN <<"very_high", "Risco muito alto. Protecao extra necessaria. Evite exposicao ao sol do meio-dia.">>
    ELSE <<"extreme", "Risco extremo. Evite exposicao ao sol. Tome todas as precaucoes.">>

CategorizeUv ==
    /\ call.fn = "categorize_uv_index"
    /\ Return(CategorizeUvIndex(call.arg))

\* directions, and round(n / d) for integers n >= 0, d > 0 (half to even).
Directions == <<"N", "NE", "E", "SE", "S", "SW", "W", "NW">>

RoundDiv(n, d) ==
    LET q == n \div d
        r == n % d
    IN  IF 2 * r > d \/ (2 * r = d /\ q % 2 = 1) THEN q + 1 ELSE q

\* A variant that truncates instead of rounding: what C18 rules out.
DirectionToCardinalTruncating(degrees) ==
    Directions[((degrees \div 45) % 8) + 1]

\* direction_to_cardinal: directions[round(degrees / 45) % 8].
DirectionToCardinal(degrees) ==
    Directions[(RoundDiv(degrees, 45) % 8) + 1]

ToCardinal ==
    /\ call.fn = "direction_to_cardinal"
    /\ Return(DirectionToCardinal(call.arg))

\* get_fire_history_data for a non-empty result: the record it returns.
FireHistoryData(fire_events) ==
    [active_fires_count |-> Len(SortByDistance(fire_events)),
     fires |-> FiresList(fire_events)]

GetFireHistory ==
    /\ call.fn = "get_fire_history_data"
    /\ Return(FireHistoryData(call.arg))

SortStations ==
    /\ call.fn = "stations"
    /\ Return(StationsList(call.arg))

SortFires ==
    /\ call.fn = "fires"
    /\ Return(FiresList(call.arg))

FunctionCalls ==
    {Call("stations", l) : l \in StationInputs}
    \cup {Call("fires", l) : l \in FireInputs}
    \cup {Call("get_fire_history_data", l) : l \in FireInputs \ {<<>>}}
    \cup {Call("_deduplicate_fires", l) : l \in DeduplicateInputs}
    \cup {Call("get_air_quality_data", l) : l \in Pm25Inputs}
    \cup {Call("calculate_aqi", a) : a \in AqiInputs}
    \cup {Call("categorize_uv_index", v) : v \in 0..MaxUvIndex}
    \cup {Call("direction_to_cardinal", d) : d \in 0..MaxDegrees}

InitFunctions ==
    /\ ProcessStart
    /\ call \in FunctionCalls

NextFunctions ==
    \/ SortStations
    \/ SortFires
    \/ GetFireHistory
    \/ Deduplicate
    \/ AverageStations
    \/ Categorize
    \/ CategorizeUv
    \/ ToCardinal

SpecFunctions == InitFunctions /\ [][NextFunctions]_vars

\* ================================================================ properties
\* Credential material of a method, as the settings and the home directory
\* give it, and the place of a method in the preference order.
HasCredentialMaterial(m) ==
    IF m = "token" THEN settings.earthdata_token = "set"
    ELSE IF m = "env" THEN settings.earthdata_username = "set"
                           /\ settings.earthdata_password = "set"
    ELSE netrc_exists

PreferenceRank(m) == IF m = "token" THEN 1 ELSE IF m = "env" THEN 2 ELSE 3

\* m is the method the preference order designates next.
NextInPreference(m) ==
    /\ HasCredentialMaterial(m)
    /\ m \notin attempted_methods
    /\ \A k \in Methods : PreferenceRank(k) < PreferenceRank(m)
          => (k \in attempted_methods \/ ~HasCredentialMaterial(k))

\* Request r's ensure_authenticated is called in this step.
EnsureCalled(r) ==
    /\ req[r].pc \in Sites
    /\ req[r].login = NoMethod
    /\ req'[r] # req[r]

WarningsFor(rq, source) ==
    Cardinality({i \in DOMAIN rq.warnings : rq.warnings[i].source = source})

\* The source's field is None and it has exactly one warning.
SourceUnavailable(rq, source) ==
    /\ rq.data[source] = "None"
    /\ WarningsFor(rq, source) = 1

\* C1: with no reset_authentication in between, each authentication method
\* (token, env, netrc) is passed to earthaccess.login at most once, over all
\* instances and requests, whether the attempt returned or raised.
C1_EachMethodAtMostOnce == \A m \in Methods : loginCalls[m] <= 1

\* Two methods have each been attempted once and have failed.
C1_Witness ==
    /\ loginCalls["token"] = 1 /\ loginCalls["env"] = 1
    /\ attempted_methods = {"token", "env"}
    /\ ~auth_successful

C3_SuccessIsKept ==
    [][auth_successful
       => \/ ResetAuthentication
          \/ /\ auth_successful' /\ shared_auth' = shared_auth
             /\ loginCalls' = loginCalls
             /\ \A r \in Requests :
                   EnsureCalled(r) => req'[r].authenticated /\ req'[r].login = NoMethod]_vars

\* Authenticated with a deadline left over from an earlier failure, and a
\* request that made no login has been answered True by get_imerg_data's check.
C3_Witness ==
    /\ auth_successful /\ backoff_until # {}
    /\ \E r \in Requests :
          /\ req[r].pc = "imerg_search"
          /\ req[r].authenticated /\ req[r].logins = 0

\* C4: methods are attempted in the order token, username/password, netrc: a
\* method is attempted only if each method before it is already attempted or
\* has no credential material, and a method without material is never attempted.
C4_PreferenceOrder ==
    /\ \A m \in Methods : loginCalls[m] > 0 => HasCredentialMaterial(m)
    /\ \A r \in Requests :
          req[r].login # NoMethod
          => /\ HasCredentialMaterial(req[r].login)
             /\ \A k \in Methods :
                   PreferenceRank(k) < PreferenceRank(req[r].login)
                   => (k \in attempted_methods \/ ~HasCredentialMaterial(k))

\* netrc is being attempted after the token, username/password having been
\* skipped for want of a password.
C4_Witness ==
    \E r \in Requests :
        /\ req[r].login = "netrc"
        /\ "token" \in attempted_methods
        /\ ~HasCredentialMaterial("env") /\ loginCalls["env"] = 0

\* C5: while one request is between choosing a method and recording it, no
\* other request is inside ensure_authenticated or an archive call, so two
\* requests never attempt a method at the same time.
C5_MutualExclusion ==
    \A r1, r2 \in Requests :
        (r1 # r2 /\ req[r1].login # NoMethod)
        => (req[r2].login = NoMethod /\ req[r2].pc \notin Sites)

\* One request is inside the first login while the other, not yet
\* authenticated either, is in flight ahead of its own check.
C5_Witness ==
    \E r1, r2 \in Requests :
        /\ r1 # r2
        /\ req[r1].login # NoMethod /\ attempted_methods = {}
        /\ req[r2].pc \in {"air_await", "fire_await1", "fire_await2"}
        /\ ~req[r2].authenticated

\* C6: reset_authentication returns the shared state to its initial value, and
\* the next ensure_authenticated call attempts the first available method of
\* the preference order, whatever was attempted or backed off before.
C6_ResetRestoresInitialState ==
    [][/\ ResetAuthentication => authVars' = InitialAuthState
       /\ \A r \in Requests :
             (EnsureCalled(r) /\ attempted_methods = {} /\ ~auth_successful)
             => \A m \in Methods :
                   NextInPreference(m) => req'[r].login = m]_vars

\* After a success and a reset (one request still holds the stale flag),
\* another request is attempting the token again.
C6_Witness ==
    \E r1, r2 \in Requests :
        /\ r1 # r2
        /\ req[r1].authenticated /\ ~auth_successful
        /\ req[r2].login = "token" /\ loginCalls["token"] = 1
        /\ attempted_methods = {}

\* C7: in every completed response data_sources_queried equals
\* data_sources_successful plus the number of warnings.
C7_QueriedIsSuccessfulPlusWarnings ==
    \A r \in Requests :
        req[r].pc = "respond"
        => LET m == Response(req[r]).metadata
           IN  m.data_sources_queried = m.data_sources_successful + Len(m.warnings)

\* A response with three populated sources, with "unavailable" warnings and
\* with the warning of a source that raised.
C7_Witness ==
    \E r \in Requests :
        /\ req[r].pc = "respond"
        /\ req[r].successful = 3
        /\ \E i, j \in DOMAIN req[r].warnings :
              /\ req[r].warnings[i].kind = "unavailable"
              /\ req[r].warnings[j].kind = "error"

\* C8: data_sources_queried >= data_sources_successful at every point, and a
\* completed response has counted each of the six sources exactly once,
\* whatever provider calls and authentication checks were made.
C8_QueriedOncePerSource ==
    \A r \in Requests :
        /\ req[r].queried >= req[r].successful
        /\ req[r].pc = "respond" => req[r].queried = Cardinality(Sources)

\* A response whose weather came from the archive: five authentication
\* checks, two searches and two downloads were made for it.
C8_Witness ==
    \E r \in Requests :
        /\ req[r].pc = "respond"
        /\ req[r].data["weather"] # "None"
        /\ req[r].queried = Cardinality(Sources)

\* C9: every valid query is answered with success status (a complete response),
\* whatever the adapters and the authenticator do.
C9_ValidQueryAnswered200 ==
    \A r \in Requests :
        (req[r].pc = "done" /\ req[r].valid) => req[r].status = 200

\* C10: a source whose provider yielded no usable data (no stations; no FIRMS
\* key, HTTP error or empty CSV; no authentication for the archive; the UV
\* source) has None in the response, exactly one warning, and is not counted.
C10_NoUsableDataIsUnavailable ==
    \A r \in Requests :
        req[r].pc = "respond"
        => /\ req[r].air_in = "no_stations" => SourceUnavailable(req[r], "air_quality")
           /\ req[r].fire_in \in {"no_key", "no_data"}
                 => SourceUnavailable(req[r], "fire_history")
           /\ ~req[r].authenticated
                 => /\ SourceUnavailable(req[r], "precipitation")
                    /\ SourceUnavailable(req[r], "weather")
           /\ SourceUnavailable(req[r], "uv_index")
           /\ req[r].successful =
                 Cardinality({s \in Sources : WarningsFor(req[r], s) = 0})

\* C11: on one DataProcessor, with the same credentials and the same answers
\* of the archive, get_weather_data returns the same result whether or not
\* the precipitation adapter was called before it.
C11_WeatherIndependentOfPrecipitation ==
    (/\ call.fn = "adapters"
     /\ call.weather[FALSE] # "-"
     /\ call.weather[TRUE] # "-")
    => call.weather[FALSE] = call.weather[TRUE]

\* C12: a body whose latitude is outside [-90, 90], whose longitude is outside
\* [-180, 180], whose radius is outside [100, 50000] or that lacks latitude or
\* longitude is answered 422 in the step that receives it: no source is
\* queried, no provider client is built, no login is under way, and the
\* shared authenticator state is as it was.
C12_InvalidBodyRejectedBeforeAdapters ==
    [][\A r \in Requests :
          (/\ req[r].pc = "idle"
           /\ req'[r].pc # "idle"
           /\ call'.fn = "post"
           /\ \/ call'.body.latitude < -90 \/ call'.body.latitude > 90
              \/ call'.body.longitude < -180 \/ call'.body.longitude > 180
              \/ call'.body.radius_meters < 100 \/ call'.body.radius_meters > 50000
              \/ "latitude" \notin call'.body.fields
              \/ "longitude" \notin call'.body.fields)
          => /\ req'[r] = [IdleRequest EXCEPT !.pc = "done", !.status = 422]
             /\ UNCHANGED <<authVars, environ, loginCalls>>]_vars

C12_Witness ==
    /\ call.fn = "post"
    /\ call.body.radius_meters > MaxRadiusMeters
    /\ req["r1"].pc = "done"
    /\ req["r1"].status = 422
    /\ req["r1"].queried = 0

\* out holds the `limit` nearest entries of in, nearest first.
NearestOf(out, in, limit) ==
    /\ Len(out) = (IF Len(in) < limit THEN Len(in) ELSE limit)
    /\ \A i \in 1..Len(out) : \E j \in 1..Len(in) : out[i] = in[j]
    /\ \A i, j \in 1..Len(out) : i < j => /\ out[i].distance_km <= out[j].distance_km
                                          /\ out[i].id # out[j].id
    /\ \A j \in 1..Len(in) :
          (\A i \in 1..Len(out) : out[i] # in[j])
          => \A i \in 1..Len(out) : out[i].distance_km <= in[j].distance_km

\* C13: the station list of an air-quality record is in non-decreasing order
\* of distance_km, has at most 5 entries, and these are the 5 nearest of all
\* the grouped stations; the fire list is in non-decreasing order, has at
\* most 20 entries, and these are the 20 nearest of the deduplicated
\* detections.
C13_ListsAreTheNearestInOrder ==
    /\ (call.fn = "stations" /\ call.returned)
       => NearestOf(call.result, call.arg, 5)
    /\ (call.fn = "fires" /\ call.returned)
       => NearestOf(call.result, call.arg, 20)

C13_Witness ==
    /\ call.fn = "fires"
    /\ call.returned
    /\ Len(call.arg) > 20
    /\ Len(call.result) = 20
    /\ \E j \in 1..20 : call.arg[j].distance_km > call.arg[21].distance_km

C15_AverageAndCategoryReturned ==
    (call.fn = "get_air_quality_data" /\ call.returned)
    => /\ call.result.returns = "record_ground"
       /\ LET n == Len(call.arg)
              total == 100 * Sum(call.arg)
              mean == call.result.average.pm25
          IN  /\ 2 * (mean * n - total) <= n
              /\ 2 * (total - mean * n) <= n
              /\ call.result.average.overall_aqi =
                    (IF total <= 1200 * n THEN "good"
                     ELSE IF total <= 3540 * n THEN "moderate"
                     ELSE "unhealthy_sensitive")

\* C16: calculate_aqi follows the breakpoint tables (pm25 12 / 35.4 / 55.4 /
\* 150.4 / 250.4, pm10 54 / 154 / 254 / 354 / 424, no2 53 / 100 / 360 / 649 /
\* 1249, o3 54 / 70 / 85 / 105 / 200; in tenths below), a value equal to a
\* bound falling in the lower category, and answers unknown for any other
\* parameter.
C16_AqiFollowsBreakpointTable ==
    LET table == [pm25 |-> <<120, 354, 554, 1504, 2504>>,
                  pm10 |-> <<540, 1540, 2540, 3540, 4240>>,
                  no2 |-> <<530, 1000, 3600, 6490, 12490>>,
                  o3 |-> <<540, 700, 850, 1050, 2000>>]
        categories == <<"good", "moderate", "unhealthy_sensitive", "unhealthy",
                        "very_unhealthy", "hazardous">>
    IN  (call.fn = "calculate_aqi" /\ call.returned)
        => IF call.arg.parameter \in DOMAIN table
           THEN LET bounds == table[call.arg.parameter]
                    below == {i \in 1..5 : bounds[i] < call.arg.value}
                IN  call.result = categories[Cardinality(below) + 1]
           ELSE call.result = "unknown"

C16_Witness ==
    /\ call.fn = "calculate_aqi"
    /\ call.returned
    /\ call.arg = [parameter |-> "o3", value |-> 700]
    /\ call.result = "moderate"

\* C17: categorize_uv_index answers low below 3, moderate from 3 to below 6,
\* high from 6 to below 8, very_high from 8 to below 11 and extreme from 11
\* on, each category with its one advisory string (the one given at the
\* category's lower bound).
C17_UvCategoriesAndAdvisories ==
    (call.fn = "categorize_uv_index" /\ call.returned)
    => LET v == call.arg
           lower == IF v >= 110 THEN 110 ELSE IF v >= 80 THEN 80
                    ELSE IF v >= 60 THEN 60 ELSE IF v >= 30 THEN 30 ELSE 0
       IN  /\ call.result[1] = "low" <=> v < 30
           /\ call.result[1] = "moderate" <=> (30 <= v /\ v < 60)
           /\ call.result[1] = "high" <=> (60 <= v /\ v < 80)
           /\ call.result[1] = "very_high" <=> (80 <= v /\ v < 110)
           /\ call.result[1] = "extreme" <=> v >= 110
           /\ call.result[2] = CategorizeUvIndex(lower)[2]

C17_Witness ==
    /\ call.fn = "categorize_uv_index"
    /\ call.returned
    /\ call.arg = 80
    /\ call.result[1] = "very_high"

\* C18: for every whole number of degrees d in [0, 360], direction_to_cardinal
\* answers the entry round(d / 45) mod 8 of N, NE, E, SE, S, SW, W, NW, that
\* is the direction of the multiple of 45 nearest to d: the multiples of 45
\* map to the directions in order and 360 wraps to N.
C18_CardinalOfNearestMultipleOf45 ==
    (call.fn = "direction_to_cardinal" /\ call.returned /\ call.arg <= 360)
    => \E k \in 0..8 :
          /\ 2 * (call.arg - 45 * k) < 45
          /\ 2 * (45 * k - call.arg) < 45
          /\ call.result =
                <<"N", "NE", "E", "SE", "S", "SW", "W", "NW", "N">>[k + 1]

C18_Witness ==
    /\ call.fn = "direction_to_cardinal"
    /\ call.returned
    /\ call.arg = 360
    /\ call.result = "N"

\* C19: a request whose handler has started is eventually answered, even
\* if the provider call of one adapter never completes.
C19_RequestEventuallyAnswered ==
    \A r \in Requests : (req[r].pc = "air_await") ~> (req[r].pc = "done")

\* C20: the aerosol/UV source is always unavailable: in every response
\* uv_index is None with exactly one UV warning (so data_sources_successful
\* is below data_sources_queried), and the satellite part of a returned
\* air-quality record has no aerosol or NO2 value and the quality flag
\* unavailable.
C20_UvAndSatelliteAlwaysUnavailable ==
    \A r \in Requests :
        req[r].pc = "respond"
        => /\ req[r].data.uv_index = "None"
           /\ Cardinality({i \in DOMAIN req[r].warnings :
                              req[r].warnings[i].source = "uv_index"}) = 1
           /\ \A i \in DOMAIN req[r].warnings :
                 req[r].warnings[i].source = "uv_index"
                 => req[r].warnings[i].kind = "unavailable"
           /\ req[r].successful < req[r].queried
           /\ req[r].data.air_quality # "None"
              => SatelliteAirQuality(GetTropomiData(req[r].authenticated))
                 = [aerosol_index |-> "None", no2_mol_m2 |-> "None",
                    quality_flag |-> "unavailable"]

C20_Witness ==
    \E r \in Requests :
        /\ req[r].pc = "respond"
        /\ req[r].authenticated
        /\ req[r].data.air_quality = "record_ground"
        /\ req[r].data.weather = "record"
        /\ req[r].data.uv_index = "None"

\* C21: a login attempt that fails sets the backoff deadline, 10 minutes
\* ahead when the failure signals an account lock and 2 minutes ahead for
\* any other failure, whether login raised or returned an unauthenticated
\* result; a successful attempt sets no deadline.
C21_FailureSetsBackoffDeadline ==
    [][(call.fn = "adapters" /\ loginCalls' # loginCalls)
       => IF call.login = "authenticated"
          THEN auth_successful' /\ backoff_until' = backoff_until
          ELSE /\ ~auth_successful'
               /\ backoff_until' =
                     {now + (IF call.login = "raises_locked" THEN 10 ELSE 2)}]_vars

C21_Witness ==
    /\ call.fn = "adapters"
    /\ call.login = "unauthenticated"
    /\ now = 1
    /\ backoff_until = {3}
    /\ attempted_methods # {}

\* C22: once DataProcessor.close() has returned (the handler is about to
\* build its response), both the OpenAQ client and the FIRMS client have
\* been released, whether or not releasing one of them failed.
C22_HandlesReleasedAfterClose ==
    \A r \in Requests :
        req[r].pc = "respond"
        => ~req[r].openaq_open /\ ~req[r].firms_open

\* C23: whenever get_imerg_data is authenticated, finds and downloads a
\* granule and extracts a precipitation value, get_precipitation_data
\* returns a precipitation record (not None).
C23_ExtractedValueGivesRecord ==
    (/\ call.fn = "adapters"
     /\ call.precipitation # "-"
     /\ call.authenticated
     /\ call.inp.granules
     /\ call.inp.imerg = "value")
    => call.precipitation = "record"

\* C24: in every fire-history result, active_fires_count equals the length
\* of the returned fires list and never exceeds 20.
C24_CountIsLengthOfReturnedList ==
    (call.fn = "get_fire_history_data" /\ call.returned)
    => /\ call.result.active_fires_count = Len(call.result.fires)
       /\ call.result.active_fires_count <= 20

\* C25: a request makes at most one login attempt over all the
\* ensure_authenticated checks of its archive adapters (and each check makes
\* at most one): after a failed attempt no further method is tried within
\* the same request.
C25_OneLoginPerRequest ==
    \A r \in Requests :
        /\ req[r].logins <= 1
        /\ req[r].login # NoMethod => req[r].logins = 1

C25_Witness ==
    \E r \in Requests :
        /\ req[r].pc = "close_await1"
        /\ ~req[r].authenticated
        /\ attempted_methods = {"token"}
        /\ loginCalls["token"] = 1
        /\ backoff_until = {now + 2}
        /\ Available("env")

\* C26: whenever get_gibs_imagery returns a non-empty result, the response
\* has no imagery warning, counts imagery among the successful sources, and
\* its data has a place for the imagery mapping.
C26_ImageryCountedWithoutWarning ==
    \A r \in Requests :
        (req[r].pc = "respond" /\ GetGibsImagery # "None")
        => /\ WarningsFor(req[r], "imagery") = 0
           /\ req[r].successful >= 1
           /\ "satellite_imagery" \in DOMAIN Response(req[r]).data

\* C27: for every input list, the list _deduplicate_fires returns holds no
\* two detections closer to each other than the threshold, also after a
\* kept detection was replaced by a brighter one appended at the end.
C27_NoTwoCloseDetectionsReturned ==
    (call.fn = "_deduplicate_fires" /\ call.returned)
    => \A i \in 1..Len(call.result) : \A j \in 1..Len(call.result) :
           i < j => ~IsDuplicate(call.result[i], call.result[j])

\* C28: _deduplicate_fires applied to its own output returns the same set of
\* detections.
C28_DeduplicateIdempotent ==
    (call.fn = "_deduplicate_fires" /\ call.returned)
    => LET again == DeduplicateFires(call.result)
       IN  {again[k] : k \in 1..Len(again)}
           = {call.result[k] : k \in 1..Len(call.result)}

\* C29: once every method that has credential material has been attempted
\* and has failed, every later ensure_authenticated call returns False with
\* no login, also once the backoff deadline has passed, until
\* reset_authentication; so between resets the number of logins is at most
\* the number of methods with material (at most 3).
C29_ExhaustedMethodsNeverRetried ==
    /\ [](loginCalls["token"] + loginCalls["env"] + loginCalls["netrc"]
           <= Cardinality({m \in Methods : HasCredentialMaterial(m)}))
    /\ [][(/\ ~auth_successful
            /\ \A m \in Methods : HasCredentialMaterial(m) => m \in attempted_methods)
           => \/ ResetAuthentication
              \/ /\ loginCalls' = loginCalls
                 /\ UNCHANGED authVars
                 /\ \A r \in Requests :
                       EnsureCalled(r)
                       => ~req'[r].authenticated /\ req'[r].login = NoMethod]_vars

\* The token is the only method with material and its attempt failed; the
\* deadline has passed; one request was answered False without a login and
\* another stands at its ensure_authenticated call.
C29_Witness ==
    /\ attempted_methods = {"token"} /\ loginCalls["token"] = 1
    /\ ~HasCredentialMaterial("env") /\ ~HasCredentialMaterial("netrc")
    /\ ~auth_successful
    /\ backoff_until # {} /\ \A t \in backoff_until : now >= t
    /\ \E r1, r2 \in Requests :
          /\ req[r1].pc = "close_await1" /\ ~req[r1].authenticated
          /\ req[r2].pc = "imerg" /\ req[r2].login = NoMethod

\* C30: in every reachable state an EarthdataService instance whose own
\* authenticated flag is True finds the shared class-level state
\* authenticated; after reset_authentication no living instance still holds
\* the flag.
C30_InstanceFlagImpliesSharedState ==
    \A r \in Requests : req[r].authenticated => auth_successful

====
